---- MODULE Spec2Model ----
(***************************************************************************)
(* Mission Ingestion Service: POST /mission (main.py, create_mission) and  *)
(* the Open-Meteo weather client (utils/weather.py, get_weather).          *)
(*                                                                         *)
(* Optional values are sequences of length 0 (nothing yet) or 1.           *)
(* JSON / Python scalars are tagged records [t, n]: t is the type, n the   *)
(* number when t = "num" and 0 otherwise.                                  *)
(***************************************************************************)
EXTENDS Integers, Sequences, FiniteSets, TLC

VARIABLES pc, payload, mission_data, params, gets, reply, weather_data, exc,
          logged, response, clock

vars == <<pc, payload, mission_data, params, gets, reply, weather_data, exc,
          logged, response, clock>>

(* ------------------------------ bounds --------------------------------- *)

NumRequests == 2
MaxClock == 1
TempBound == 2
WindBound == 2

(* --------------------------- program constants -------------------------- *)

FreezingLimit == 0
WindyLimit == 40
LatMin == -90
LatMax == 90
LonMin == -180
LonMax == 180
StatusOk == 200
StatusUnprocessable == 422
StatusServerError == 500

(* ------------------------------ scalars --------------------------------- *)

Absent == [t |-> "absent", n |-> 0]
JNull == [t |-> "null", n |-> 0]
JStr == [t |-> "str", n |-> 0]
JList == [t |-> "list", n |-> 0]
Num(v) == [t |-> "num", n |-> v]
PyNone == [t |-> "none", n |-> 0]

(* dict.get(key) on a parsed JSON object: a missing key and a JSON null     *)
(* both give None; any other value is returned as it is.                    *)
DictGet(s) == IF s.t \in {"absent", "null"} THEN PyNone ELSE s

(* Python truthiness of a value read from the body ("str" and "list" stand  *)
(* for a non-empty string and a non-empty list).                            *)
Truthy(v) ==
  CASE v.t = "none" -> FALSE
    [] v.t = "num" -> v.n # 0
    [] OTHER -> TRUE

(* v < k and v > k raise TypeError unless v is a number. *)
Comparable(v) == v.t = "num"

(* ----------------------------- get_weather ------------------------------ *)

Fallback == [temperature |-> PyNone, wind_speed |-> PyNone, condition |-> "unknown"]

EmptyDict == [t |-> "obj", temperature_2m |-> Absent, wind_speed_10m |-> Absent,
              is_day |-> Absent]

Params(latitude, longitude) ==
  [latitude |-> latitude, longitude |-> longitude,
   current |-> <<"temperature_2m", "wind_speed_10m", "is_day">>,
   wind_speed_unit |-> "kmh", timezone |-> "UTC"]

(* Mutant: raise_for_status() left out, every status is taken as success. *)
IsSuccessUnchecked(status) == status >= 0

(* httpx: Response.is_success, used by raise_for_status. *)
IsSuccess(status) == status >= 200 /\ status < 300

Raise(e) == [exc |-> e, value |-> Fallback]
Return(v) == [exc |-> "none", value |-> v]

(* Mutant: the wind rule tested before the cold rule. *)
ConditionWindFirst(temperature, wind_speed, is_day) ==
  IF temperature.t = "none" \/ wind_speed.t = "none" THEN Return("unknown")
  ELSE IF ~Comparable(wind_speed) THEN Raise("TypeError")
  ELSE IF wind_speed.n > WindyLimit THEN Return("windy")
  ELSE IF ~Comparable(temperature) THEN Raise("TypeError")
  ELSE IF temperature.n < FreezingLimit THEN Return("freezing")
  ELSE Return(IF Truthy(is_day) THEN "clear-day" ELSE "clear-night")

(* Mutant: the last rule yields the day flag's word without its prefix. *)
ConditionBareWord(temperature, wind_speed, is_day) ==
  IF temperature.t = "none" \/ wind_speed.t = "none" THEN Return("unknown")
  ELSE IF ~Comparable(temperature) THEN Raise("TypeError")
  ELSE IF temperature.n < FreezingLimit THEN Return("freezing")
  ELSE IF ~Comparable(wind_speed) THEN Raise("TypeError")
  ELSE IF wind_speed.n > WindyLimit THEN Return("windy")
  ELSE Return(IF Truthy(is_day) THEN "day" ELSE "night")

Condition(temperature, wind_speed, is_day) ==
  IF temperature.t = "none" \/ wind_speed.t = "none" THEN Return("unknown")
  ELSE IF ~Comparable(temperature) THEN Raise("TypeError")
  ELSE IF temperature.n < FreezingLimit THEN Return("freezing")
  ELSE IF ~Comparable(wind_speed) THEN Raise("TypeError")
  ELSE IF wind_speed.n > WindyLimit THEN Return("windy")
  ELSE Return(IF Truthy(is_day) THEN "clear-day" ELSE "clear-night")

(* The statements after response.json(): lines 73-93. *)
Normalise(data) ==
  IF data.t # "obj" THEN Raise("AttributeError")
  ELSE LET current == IF data.current.t = "absent" THEN EmptyDict ELSE data.current
       IN IF current.t # "obj" THEN Raise("AttributeError")
          ELSE LET temperature == DictGet(current.temperature_2m)
                   wind_speed == DictGet(current.wind_speed_10m)
                   is_day == DictGet(current.is_day)
                   c == Condition(temperature, wind_speed, is_day)
               IN IF c.exc # "none" THEN Raise(c.exc)
                  ELSE Return([temperature |-> temperature,
                               wind_speed |-> wind_speed,
                               condition |-> c.value])

(* The body of the try block for one outcome of the GET: lines 68-93. *)
TryBody(o) ==
  IF o.kind = "timeout" THEN Raise("TimeoutException")
  ELSE IF o.kind = "network" THEN Raise("ConnectError")
  ELSE IF ~IsSuccess(o.status) THEN Raise("HTTPStatusError")
  ELSE IF o.body.t = "invalid" THEN Raise("JSONDecodeError")
  ELSE Normalise(o.body)

(* httpx exception hierarchy: the classes under httpx.HTTPError. *)
IsHTTPError(e) == e \in {"TimeoutException", "ConnectError", "HTTPStatusError"}

(* Mutant: no generic except clause, only the httpx errors are handled. *)
IsExceptionHttpOnly(e) == e \in {"TimeoutException", "ConnectError", "HTTPStatusError"}

(* Every exception class the try body can raise derives from Exception. *)
IsException(e) ==
  e \in {"TimeoutException", "ConnectError", "HTTPStatusError",
         "JSONDecodeError", "AttributeError", "TypeError"}

(* Mutant: the httpx handler logs and raises again. *)
GetWeatherReraise(o) ==
  LET b == TryBody(o)
  IN IF b.exc = "none" THEN [exc |-> "none", value |-> b.value, log |-> "none"]
     ELSE IF IsHTTPError(b.exc)
          THEN [exc |-> b.exc, value |-> Fallback, log |-> "http_error"]
     ELSE [exc |-> "none", value |-> Fallback, log |-> "unexpected_error"]

(* get_weather as a whole: the outcome of the try body through the two     *)
(* except clauses.  exc # "none" means the exception leaves get_weather.   *)
GetWeather(o) ==
  LET b == TryBody(o)
  IN IF b.exc = "none" THEN [exc |-> "none", value |-> b.value, log |-> "none"]
     ELSE IF IsHTTPError(b.exc)
          THEN [exc |-> "none", value |-> Fallback, log |-> "http_error"]
     ELSE IF IsException(b.exc)
          THEN [exc |-> "none", value |-> Fallback, log |-> "unexpected_error"]
     ELSE [exc |-> b.exc, value |-> Fallback, log |-> "none"]

(* ----------------------- MissionRequest (models.py) ---------------------- *)

(* Schema validation of the request body: latitude and longitude are        *)
(* mandatory numbers within their ranges.                                   *)
Valid(p) ==
  /\ p.latitude.t = "num" /\ p.latitude.n >= LatMin /\ p.latitude.n <= LatMax
  /\ p.longitude.t = "num" /\ p.longitude.n >= LonMin /\ p.longitude.n <= LonMax

(* mission.dict(): the validated model as a plain map, extra fields kept.   *)
MissionDict(p) ==
  [latitude |-> p.latitude.n, longitude |-> p.longitude.n, name |-> p.name]

(* ------------------------------- inputs --------------------------------- *)

NonObj(t) == [t |-> t, temperature_2m |-> Absent, wind_speed_10m |-> Absent,
              is_day |-> Absent]

Temps ==
  {Num(v) : v \in ((FreezingLimit - TempBound)..(FreezingLimit + TempBound))
                  \cup {-5, 10, 15}}
  \cup {Absent, JNull, JStr, JList}

Winds ==
  {Num(v) : v \in ((WindyLimit - WindBound)..(WindyLimit + WindBound))
                  \cup {5, 10, 50}}
  \cup {Absent, JNull, JStr}

IsDays == {Absent, Num(0), Num(1)}

Currents ==
  [t : {"obj"}, temperature_2m : Temps, wind_speed_10m : Winds, is_day : IsDays]
  \cup {NonObj("absent"), NonObj("null"), NonObj("list"), NonObj("str")}

GoodBody == [t |-> "obj",
             current |-> [t |-> "obj", temperature_2m |-> Num(15),
                          wind_speed_10m |-> Num(5), is_day |-> Num(1)]]

ColdBody == [t |-> "obj",
             current |-> [t |-> "obj", temperature_2m |-> Num(-5),
                          wind_speed_10m |-> Num(10), is_day |-> Num(0)]]

BadBodies == {[t |-> x, current |-> NonObj("absent")] : x \in {"invalid", "null", "list"}}

Bodies == [t : {"obj"}, current : Currents] \cup BadBodies

Faults == {[kind |-> k, status |-> 0, body |-> [t |-> "invalid", current |-> NonObj("absent")]]
             : k \in {"timeout", "network"}}

(* Every outcome of the GET: a fault, a failed status with some body, or a  *)
(* success status with any body.                                           *)
Outcomes ==
  Faults
  \cup [kind : {"response"}, status : {404, 500}, body : BadBodies \cup {GoodBody}]
  \cup [kind : {"response"}, status : {StatusOk}, body : Bodies]

Payloads ==
  [latitude : {Absent} \cup {Num(v) : v \in {-91, LatMin, 45, LatMax, 91, 200}},
   longitude : {Absent} \cup {Num(v) : v \in {-181, LonMin, 9, LonMax, 181}},
   name : {"Alpha"}]

(* The small input sets of the concurrent specification. *)
FewOutcomes ==
  {o \in Faults : o.kind = "timeout"}
  \cup [kind : {"response"}, status : {500}, body : {GoodBody}]
  \cup [kind : {"response"}, status : {StatusOk},
        body : {GoodBody, ColdBody, [t |-> "invalid", current |-> NonObj("absent")]}]

FewPayloads ==
  {[latitude |-> Num(45), longitude |-> Num(9), name |-> "Alpha"],
   [latitude |-> Num(-30), longitude |-> Num(120), name |-> "Bravo"],
   [latitude |-> Num(200), longitude |-> Num(9), name |-> "Alpha"],
   [latitude |-> Num(45), longitude |-> Absent, name |-> "Bravo"]}

(* ------------------------------- actions -------------------------------- *)

InitWith(R) ==
  /\ pc = [r \in R |-> "idle"]
  /\ payload = [r \in R |-> <<>>]
  /\ mission_data = [r \in R |-> <<>>]
  /\ params = [r \in R |-> <<>>]
  /\ gets = [r \in R |-> 0]
  /\ reply = [r \in R |-> <<>>]
  /\ weather_data = [r \in R |-> <<>>]
  /\ exc = [r \in R |-> "none"]
  /\ logged = [r \in R |-> "none"]
  /\ response = [r \in R |-> <<>>]
  /\ clock = 0

Init == InitWith(1..NumRequests)

InitFetch == InitWith({1})

(* A POST /mission arrives with body p. *)
Receive(r, P) ==
  /\ pc[r] = "idle"
  /\ \E p \in P : payload' = [payload EXCEPT ![r] = <<p>>]
  /\ pc' = [pc EXCEPT ![r] = "received"]
  /\ UNCHANGED <<mission_data, params, gets, reply, weather_data, exc, logged,
                 response, clock>>

(* The body conforms to MissionRequest: the handler is scheduled. *)
Accept(r) ==
  /\ pc[r] = "received"
  /\ Valid(payload[r][1])
  /\ pc' = [pc EXCEPT ![r] = "validated"]
  /\ UNCHANGED <<payload, mission_data, params, gets, reply, weather_data, exc,
                 logged, response, clock>>

(* The body violates the schema: client error, the handler never runs. *)
Reject(r) ==
  /\ pc[r] = "received"
  /\ ~Valid(payload[r][1])
  /\ response' = [response EXCEPT ![r] = <<[status |-> StatusUnprocessable, body |-> <<>>]>>]
  /\ pc' = [pc EXCEPT ![r] = "done"]
  /\ UNCHANGED <<payload, mission_data, params, gets, reply, weather_data, exc,
                 logged, clock>>

(* Mutant: the handler takes the raw body, so it runs before validation. *)
CreateMissionCallUnvalidated(r) ==
  /\ pc[r] \in {"received", "validated"}
  /\ mission_data' = [mission_data EXCEPT ![r] = <<MissionDict(payload[r][1])>>]
  /\ params' = [params EXCEPT ![r] =
                  <<Params(payload[r][1].latitude.n, payload[r][1].longitude.n)>>]
  /\ gets' = [gets EXCEPT ![r] = @ + 1]
  /\ pc' = [pc EXCEPT ![r] = "awaiting"]
  /\ UNCHANGED <<payload, reply, weather_data, exc, logged, response, clock>>

(* create_mission up to its await: mission.dict(), then get_weather builds  *)
(* the query and issues the GET.                                            *)
CreateMissionCall(r) ==
  /\ pc[r] = "validated"
  /\ mission_data' = [mission_data EXCEPT ![r] = <<MissionDict(payload[r][1])>>]
  /\ params' = [params EXCEPT ![r] =
                  <<Params(payload[r][1].latitude.n, payload[r][1].longitude.n)>>]
  /\ gets' = [gets EXCEPT ![r] = @ + 1]
  /\ pc' = [pc EXCEPT ![r] = "awaiting"]
  /\ UNCHANGED <<payload, reply, weather_data, exc, logged, response, clock>>

(* Mutant: a failed GET is attempted a second time. *)
GetWeatherReturnRetry(r, O) ==
  /\ pc[r] = "awaiting"
  /\ \E o \in O :
       LET g == GetWeather(o)
       IN IF g.log # "none" /\ gets[r] < 2
          THEN /\ gets' = [gets EXCEPT ![r] = @ + 1]
               /\ UNCHANGED <<pc, reply, exc, logged, weather_data>>
          ELSE /\ reply' = [reply EXCEPT ![r] = <<o>>]
               /\ exc' = [exc EXCEPT ![r] = g.exc]
               /\ logged' = [logged EXCEPT ![r] = g.log]
               /\ weather_data' = [weather_data EXCEPT ![r] =
                                     IF g.exc = "none" THEN <<g.value>> ELSE <<>>]
               /\ pc' = [pc EXCEPT ![r] = "assemble"]
               /\ UNCHANGED gets
  /\ UNCHANGED <<payload, mission_data, params, response, clock>>

(* The GET of request r completes with outcome o and get_weather runs to    *)
(* its return (or to the exception that leaves it).                         *)
GetWeatherReturn(r, O) ==
  /\ pc[r] = "awaiting"
  /\ \E o \in O :
       LET g == GetWeather(o)
       IN /\ reply' = [reply EXCEPT ![r] = <<o>>]
          /\ exc' = [exc EXCEPT ![r] = g.exc]
          /\ logged' = [logged EXCEPT ![r] = g.log]
          /\ weather_data' = [weather_data EXCEPT ![r] =
                                IF g.exc = "none" THEN <<g.value>> ELSE <<>>]
  /\ pc' = [pc EXCEPT ![r] = "assemble"]
  /\ UNCHANGED <<payload, mission_data, params, gets, response, clock>>

(* Mutant: the weather is read from a slot shared by all requests. *)
CreateMissionReturnShared(r) ==
  /\ pc[r] = "assemble"
  /\ \E q \in DOMAIN pc :
       /\ weather_data[q] # <<>>
       /\ response' = [response EXCEPT ![r] =
            <<[status |-> StatusOk,
               body |-> <<[mission |-> mission_data[r][1],
                           weather |-> weather_data[q][1],
                           ingestion_timestamp |-> clock]>>]>>]
  /\ pc' = [pc EXCEPT ![r] = "done"]
  /\ UNCHANGED <<payload, mission_data, params, gets, reply, weather_data, exc,
                 logged, clock>>

(* create_mission after its await: the record is assembled and returned;    *)
(* an exception that left get_weather leaves create_mission too.            *)
CreateMissionReturn(r) ==
  /\ pc[r] = "assemble"
  /\ response' = [response EXCEPT ![r] =
       IF exc[r] = "none"
       THEN <<[status |-> StatusOk,
               body |-> <<[mission |-> mission_data[r][1],
                           weather |-> weather_data[r][1],
                           ingestion_timestamp |-> clock]>>]>>
       ELSE <<[status |-> StatusServerError, body |-> <<>>]>>]
  /\ pc' = [pc EXCEPT ![r] = "done"]
  /\ UNCHANGED <<payload, mission_data, params, gets, reply, weather_data, exc,
                 logged, clock>>

(* Time passes (datetime.utcnow() reads this clock). *)
Tick ==
  /\ clock < MaxClock
  /\ clock' = clock + 1
  /\ UNCHANGED <<pc, payload, mission_data, params, gets, reply, weather_data,
                 exc, logged, response>>

Next ==
  \/ \E r \in DOMAIN pc : Receive(r, FewPayloads)
  \/ \E r \in DOMAIN pc : Accept(r)
  \/ \E r \in DOMAIN pc : Reject(r)
  \/ \E r \in DOMAIN pc : CreateMissionCall(r)
  \/ \E r \in DOMAIN pc : GetWeatherReturn(r, FewOutcomes)
  \/ \E r \in DOMAIN pc : CreateMissionReturn(r)
  \/ Tick

Spec == Init /\ [][Next]_vars

NextFetch ==
  \/ \E r \in DOMAIN pc : Receive(r, Payloads)
  \/ \E r \in DOMAIN pc : Accept(r)
  \/ \E r \in DOMAIN pc : Reject(r)
  \/ \E r \in DOMAIN pc : CreateMissionCall(r)
  \/ \E r \in DOMAIN pc : GetWeatherReturn(r, Outcomes)
  \/ \E r \in DOMAIN pc : CreateMissionReturn(r)
  \/ Tick

SpecFetch == InitFetch /\ [][NextFetch]_vars

(* ------------------------------ properties ------------------------------ *)

Reqs == DOMAIN pc

Replied(r) == reply[r] # <<>>

(* The GET of r timed out, hit a network fault or got a non-2xx status. *)
FetchFailed(r) ==
  /\ Replied(r)
  /\ \/ reply[r][1].kind \in {"timeout", "network"}
     \/ reply[r][1].kind = "response" /\ reply[r][1].status \notin 200..299

(* The GET of r got a 2xx status. *)
FetchSucceeded(r) ==
  Replied(r) /\ reply[r][1].kind = "response" /\ reply[r][1].status \in 200..299

IsFallback(w) ==
  w = [temperature |-> [t |-> "none", n |-> 0],
       wind_speed |-> [t |-> "none", n |-> 0],
       condition |-> "unknown"]

InRange(p) ==
  /\ p.latitude.t = "num" /\ p.latitude.n \in -90..90
  /\ p.longitude.t = "num" /\ p.longitude.n \in -180..180

(* C1: get_weather is total and non-throwing: whatever the outcome of the   *)
(* GET, the call has returned a map with exactly the keys temperature,      *)
(* wind_speed and condition, and no exception reaches create_mission.       *)
C1_Total ==
  \A r \in Reqs :
    Replied(r) =>
      /\ exc[r] = "none"
      /\ Len(weather_data[r]) = 1
      /\ DOMAIN weather_data[r][1] = {"temperature", "wind_speed", "condition"}

C1_Witness ==
  \E r \in Reqs :
    /\ FetchSucceeded(r)
    /\ reply[r][1].body.t = "list"
    /\ exc[r] = "none"
    /\ Len(weather_data[r]) = 1

(* C2: every returned WeatherResult is fully meaningful (temperature and    *)
(* wind_speed both non-null) or exactly the fallback.                       *)
C2_AllOrNothing ==
  \A r \in Reqs :
    weather_data[r] # <<>> =>
      \/ /\ weather_data[r][1].temperature.t # "none"
         /\ weather_data[r][1].wind_speed.t # "none"
      \/ IsFallback(weather_data[r][1])

(* C3: a timeout, a network fault or a non-success status gives exactly     *)
(* the fallback, whatever the coordinates and the body of the response.     *)
C3_FailureIsFallback ==
  \A r \in Reqs :
    FetchFailed(r) =>
      /\ exc[r] = "none"
      /\ weather_data[r] # <<>>
      /\ IsFallback(weather_data[r][1])

C3_Witness ==
  \E r \in Reqs :
    /\ FetchFailed(r)
    /\ reply[r][1].kind = "response"
    /\ reply[r][1].status = 404
    /\ reply[r][1].body.t = "obj"
    /\ reply[r][1].body.current.temperature_2m.t = "num"
    /\ weather_data[r] # <<>>
    /\ IsFallback(weather_data[r][1])

(* The section "current" of a success body that is an object whose          *)
(* temperature and wind speed are numbers or missing.                       *)
WellFormed(r) ==
  /\ FetchSucceeded(r)
  /\ reply[r][1].body.t = "obj"
  /\ reply[r][1].body.current.t = "obj"
  /\ reply[r][1].body.current.temperature_2m.t \in {"num", "absent", "null"}
  /\ reply[r][1].body.current.wind_speed_10m.t \in {"num", "absent", "null"}

ChainCondition(cur) ==
  IF cur.temperature_2m.t # "num" \/ cur.wind_speed_10m.t # "num" THEN "unknown"
  ELSE IF cur.temperature_2m.n < 0 THEN "freezing"
  ELSE IF cur.wind_speed_10m.n > 40 THEN "windy"
  ELSE IF cur.is_day = [t |-> "num", n |-> 1] THEN "clear-day"
  ELSE "clear-night"

(* C4: on a successful response the condition follows the priority chain    *)
(* unknown (a value missing) / freezing (temperature < 0) / windy (wind >   *)
(* 40) / clear-day or clear-night, the earlier rule winning, the bounds     *)
(* strict.                                                                  *)
C4_PriorityChain ==
  \A r \in Reqs :
    WellFormed(r) =>
      /\ weather_data[r] # <<>>
      /\ weather_data[r][1].condition = ChainCondition(reply[r][1].body.current)

C4_Witness ==
  \E r \in Reqs :
    /\ WellFormed(r)
    /\ reply[r][1].body.current.temperature_2m = [t |-> "num", n |-> -1]
    /\ reply[r][1].body.current.wind_speed_10m = [t |-> "num", n |-> 41]
    /\ weather_data[r] # <<>>
    /\ weather_data[r][1].condition = "freezing"

(* C5: the condition of every returned WeatherResult is one of the five     *)
(* words of the vocabulary.                                                 *)
C5_Vocabulary ==
  \A r \in Reqs :
    Replied(r) =>
      /\ weather_data[r] # <<>>
      /\ weather_data[r][1].condition \in
           {"unknown", "freezing", "windy", "clear-day", "clear-night"}

C5_Witness ==
  \E r \in Reqs :
    /\ Replied(r)
    /\ weather_data[r] # <<>>
    /\ weather_data[r][1].condition = "clear-night"

(* C6: a request whose payload passes validation is answered 200 with a     *)
(* record {mission, weather, ingestion_timestamp} whatever the weather      *)
(* service did; when the fetch failed the weather is the fallback.          *)
C6_Always200 ==
  \A r \in Reqs :
    (pc[r] = "done" /\ InRange(payload[r][1])) =>
      /\ Len(response[r]) = 1
      /\ response[r][1].status = 200
      /\ Len(response[r][1].body) = 1
      /\ DOMAIN response[r][1].body[1] = {"mission", "weather", "ingestion_timestamp"}
      /\ (FetchFailed(r) \/ (FetchSucceeded(r) /\ reply[r][1].body.t = "invalid"))
           => IsFallback(response[r][1].body[1].weather)

C6_Witness ==
  \E r \in Reqs :
    /\ pc[r] = "done"
    /\ InRange(payload[r][1])
    /\ reply[r][1].kind = "timeout"
    /\ response[r][1].status = 200
    /\ IsFallback(response[r][1].body[1].weather)

(* C7: a payload that violates the schema is answered 422 and no GET is     *)
(* ever issued for it; a GET is issued only for a request whose validation  *)
(* has succeeded.                                                           *)
C7_RejectBeforeFetch ==
  \A r \in Reqs :
    /\ (payload[r] # <<>> /\ ~InRange(payload[r][1])) =>
         /\ gets[r] = 0
         /\ params[r] = <<>>
         /\ pc[r] \in {"received", "done"}
         /\ pc[r] = "done" => response[r] = <<[status |-> 422, body |-> <<>>]>>
    /\ gets[r] > 0 =>
         /\ payload[r] # <<>>
         /\ InRange(payload[r][1])
         /\ pc[r] \in {"awaiting", "assemble", "done"}

C7_Witness ==
  \E r \in Reqs :
    /\ pc[r] = "done"
    /\ payload[r][1].latitude = [t |-> "num", n |-> 200]
    /\ response[r] = <<[status |-> 422, body |-> <<>>]>>
    /\ gets[r] = 0

(* C8: no retries: a validated request causes exactly one GET, a timeout    *)
(* or error on it resolves at once to the fallback, and a rejected request  *)
(* causes none.                                                             *)
C8_NoRetry ==
  \A r \in Reqs :
    /\ gets[r] <= 1
    /\ pc[r] \in {"awaiting", "assemble"} => gets[r] = 1
    /\ (pc[r] = "done" /\ response[r][1].status = 200) => gets[r] = 1
    /\ (pc[r] = "done" /\ response[r][1].status = 422) => gets[r] = 0
    /\ FetchFailed(r) =>
         /\ pc[r] \in {"assemble", "done"}
         /\ weather_data[r] # <<>>
         /\ IsFallback(weather_data[r][1])

C8_Witness ==
  \E r \in Reqs :
    /\ pc[r] = "done"
    /\ Replied(r)
    /\ reply[r][1].kind = "timeout"
    /\ gets[r] = 1
    /\ response[r][1].status = 200

MalformedSuccess(r) ==
  /\ FetchSucceeded(r)
  /\ \/ reply[r][1].body.t # "obj"
     \/ reply[r][1].body.current.t \notin {"obj", "absent"}
     \/ reply[r][1].body.current.temperature_2m.t \in {"str", "list"}
     \/ reply[r][1].body.current.wind_speed_10m.t \in {"str", "list"}

(* C9: a success response whose body is not valid JSON, is not an object,   *)
(* has a "current" that is not an object, or has a temperature or wind      *)
(* speed of a non-comparable type gives exactly the fallback.               *)
C9_MalformedIsFallback ==
  \A r \in Reqs :
    MalformedSuccess(r) =>
      /\ weather_data[r] # <<>>
      /\ IsFallback(weather_data[r][1])

(* C10: requests in flight together do not mix: each 200 response carries   *)
(* the mission of its own payload and the WeatherResult of its own GET,     *)
(* which was issued for its own coordinates.                                *)
C10_Independent ==
  \A r \in Reqs :
    (pc[r] = "done" /\ response[r][1].status = 200) =>
      /\ response[r][1].body[1].mission =
           [latitude |-> payload[r][1].latitude.n,
            longitude |-> payload[r][1].longitude.n,
            name |-> payload[r][1].name]
      /\ params[r][1].latitude = payload[r][1].latitude.n
      /\ params[r][1].longitude = payload[r][1].longitude.n
      /\ response[r][1].body[1].weather = GetWeather(reply[r][1]).value
      /\ FetchSucceeded(r) /\ reply[r][1].body = GoodBody
           => ~IsFallback(response[r][1].body[1].weather)

C10_Witness ==
  \E r, q \in Reqs :
    /\ r # q
    /\ pc[r] = "done" /\ response[r][1].status = 200
    /\ pc[q] = "done" /\ response[q][1].status = 200
    /\ payload[r][1] # payload[q][1]
    /\ FetchFailed(r)
    /\ IsFallback(response[r][1].body[1].weather)
    /\ FetchSucceeded(q)
    /\ response[q][1].body[1].weather.condition = "clear-day"

====
